---------------------------- MODULE Spec2Model ----------------------------
(***************************************************************************)
(* Authentication and authorization core of auth_api: JWT issuance and     *)
(* validation, the refresh-token store with rotation and revocation, and   *)
(* the permission gate in front of every protected endpoint.               *)
(*                                                                         *)
(* Time is counted in ticks; TicksPerSecond ticks make one second.  A      *)
(* datetime is a tick count, int(dt.timestamp()) is its whole second.      *)
(* A Python value that is converted between int and str in the source is   *)
(* a record [ty, v]; a JWT string is the record of its payload, the key    *)
(* that signed it and its number of dot-separated segments (jwt.encode is  *)
(* deterministic, so equal records are equal strings).                     *)
(***************************************************************************)
EXTENDS Integers, Sequences, FiniteSets, TLC

VARIABLES
    clock,           \* datetime.now(timezone.utc), in ticks
    advances,        \* how often the clock has moved: <<single ticks, long jumps>>
    users,           \* table users
    permissions,     \* table permissions
    business_elements, \* table business_elements
    refresh_tokens,  \* table refresh_tokens
    next_token_id,   \* primary-key sequence of refresh_tokens
    issued,          \* token strings handed to clients in 200 responses
    consumed,        \* refresh token strings a refresh request has succeeded with
    served,          \* number of requests taken so far
    req              \* per worker: the request it serves, or the response it gave

vars == <<clock, advances, users, permissions, business_elements,
          refresh_tokens, next_token_id, issued, consumed, served, req>>

----------------------------------------------------------------------------
(* Bounds of the model *)

TicksPerSecond == 2
MaxTicks == 2
MaxJumps == 1
MaxRequests == 4

Workers == {1, 2}

----------------------------------------------------------------------------
(* Configuration: config.py *)

ACCESS_TOKEN_EXPIRE_MINUTES == 30
REFRESH_TOKEN_EXPIRE_DAYS == 7
SECRET_KEY == "your_secret_key"

AccessTicks == ACCESS_TOKEN_EXPIRE_MINUTES * 60 * TicksPerSecond
RefreshTicks == REFRESH_TOKEN_EXPIRE_DAYS * 86400 * TicksPerSecond

----------------------------------------------------------------------------
(* Python values *)

PyInt(n) == [ty |-> "int", v |-> n]
py_str(x) == [ty |-> "str", v |-> x.v]
py_int(x) == [ty |-> "int", v |-> x.v]
NoValue == [ty |-> "none", v |-> 0]
\* `not x` for a value that is None, a str or an int; str(id) is never empty
py_not(x) == x.ty = "none" \/ (x.ty = "int" /\ x.v = 0)
\* Column(Integer) binding of a Python value
IntegerColumn(x) == x.v
\* int(dt.timestamp())
timestamp_int(t) == t \div TicksPerSecond

----------------------------------------------------------------------------
(* tools/hash.py *)

salt == "process_salt"
get_password_hash(password) == [salt |-> salt, digest |-> password]
hashpw(password, s) == [salt |-> s, digest |-> password]
verify_password(plain_password, hashed_password) ==
    hashpw(plain_password, hashed_password.salt) = hashed_password

----------------------------------------------------------------------------
(* Token codec: tools/auth_func.py *)

jwt_encode(payload, key) ==
    [sub |-> payload.sub, exp |-> payload.exp, type |-> payload.type,
     key |-> key, segments |-> 3]

create_access_token(user_id) ==
    LET expire == clock + AccessTicks
    IN  jwt_encode([sub |-> py_str(user_id), exp |-> timestamp_int(expire),
                    type |-> "access"], SECRET_KEY)

\* the token string create_refresh_token signs (lines 69-75)
refresh_jwt(user_id) ==
    LET expire == clock + RefreshTicks
    IN  jwt_encode([sub |-> py_str(user_id), exp |-> timestamp_int(expire),
                    type |-> "refresh"], SECRET_KEY)

\* a row whose expiry is taken from a second reading of the clock
refresh_row_late(user_id) ==
    [id |-> next_token_id, user_id |-> IntegerColumn(user_id),
     token |-> refresh_jwt(user_id), expires_at |-> clock + 1 + RefreshTicks]

\* the row create_refresh_token adds (lines 77-83)
refresh_row(user_id) ==
    [id |-> next_token_id, user_id |-> IntegerColumn(user_id),
     token |-> refresh_jwt(user_id), expires_at |-> clock + RefreshTicks]

\* unique=True on refresh_tokens.token: the INSERT raises IntegrityError
unique_violation(row) == \E r \in refresh_tokens : r.token = row.token

NoPayload == [sub |-> NoValue, exp |-> 0, type |-> "none"]

\* the exception jwt.decode(token, SECRET_KEY, algorithms=[ALGORITHM]) raises
jwt_error(token) ==
    IF token.segments # 3 THEN "DecodeError"
    ELSE IF token.key # SECRET_KEY THEN "InvalidSignatureError"
    ELSE IF token.exp * TicksPerSecond <= clock THEN "ExpiredSignatureError"
    ELSE "none"

\* the subclasses of jwt.PyJWTError that jwt.decode raises
PyJWTError == {"DecodeError", "InvalidSignatureError", "ExpiredSignatureError"}

\* the except clauses of decode_token, lines 129-134
caught(error) == error = "ExpiredSignatureError" \/ error \in PyJWTError

\* an exception of jwt.decode that decode_token lets through to its caller
decode_token_raises(token) ==
    jwt_error(token) # "none" /\ ~caught(jwt_error(token))

\* a signature check that accepts any key
jwt_invalid_unsigned(token) ==
    \/ token.segments # 3
    \/ token.exp * TicksPerSecond <= clock

\* jwt.decode raises DecodeError, InvalidSignatureError or ExpiredSignatureError
jwt_invalid(token) ==
    \/ token.segments # 3
    \/ token.key # SECRET_KEY
    \/ token.exp * TicksPerSecond <= clock

\* decode_token with verify_exp switched off
decode_token_unexpiring(token) ==
    IF token.segments # 3 \/ token.key # SECRET_KEY THEN NoPayload
    ELSE [sub |-> token.sub, exp |-> token.exp, type |-> token.type]

decode_token(token) ==
    IF jwt_invalid(token) THEN NoPayload
    ELSE [sub |-> token.sub, exp |-> token.exp, type |-> token.type]

\* a sweep that also takes the rows expiring at this very moment
expired_rows_inclusive == {r \in refresh_tokens : r.expires_at <= clock}

\* rows cleanup_expired_refresh_tokens deletes
expired_rows == {r \in refresh_tokens : r.expires_at < clock}

----------------------------------------------------------------------------
(* Seed data: reset_and_populate_test_data.py *)

SeedUsers ==
    { [id |-> 1, email |-> "admin@example.com",
       hashed_password |-> get_password_hash("password123"),
       is_active |-> TRUE, is_role |-> "admin"],
      [id |-> 2, email |-> "ivan@example.com",
       hashed_password |-> get_password_hash("password123"),
       is_active |-> TRUE, is_role |-> "user"] }

\* the seed users with maria, a moderator
StaffUsers ==
    SeedUsers \cup
    { [id |-> 3, email |-> "maria@example.com",
       hashed_password |-> get_password_hash("password123"),
       is_active |-> TRUE, is_role |-> "moderator"] }

Emails == {"admin@example.com", "ivan@example.com", "nobody@example.com"}
Passwords == {"password123", "wrong"}

UserIds == {1, 2, 3}
RoleNames == {"admin", "user", "guest"}

----------------------------------------------------------------------------
(* database/models_db.py: Permissions *)

Resources == {"users", "permissions", "business_elements"}
Actions == {"create", "read", "read_all", "update", "delete"}

\* the fifteen Boolean columns of Permissions
FlagColumns ==
    { "create_users", "read_users", "read_all_users", "update_users",
      "delete_users",
      "create_permissions", "read_permissions", "read_all_permissions",
      "update_permissions", "delete_permissions",
      "create_business_elements", "read_business_elements",
      "read_all_business_elements", "update_business_elements",
      "delete_business_elements" }

\* a permission row whose true flags are `granted`
Permission(role_name, granted) ==
    [role_name |-> role_name, flags |-> [c \in FlagColumns |-> c \in granted]]

AdminFlags == FlagColumns
UserFlags == {"read_users", "read_permissions", "read_business_elements"}

SeedPermissions ==
    { Permission("admin", AdminFlags), Permission("user", UserFlags) }

ModeratorFlags ==
    { "read_users", "update_users", "read_permissions",
      "create_business_elements", "read_business_elements",
      "update_business_elements" }

StaffPermissions ==
    SeedPermissions \cup {Permission("moderator", ModeratorFlags)}

\* request bodies of create_permission and update_permissions_by_role
\* (schemas.PermissionCreate; every flag defaults to False)
PermissionData ==
    { Permission(r, g) : r \in {"user", "guest"},
                         g \in {{}, FlagColumns \ UserFlags} }

----------------------------------------------------------------------------
(* database/models_db.py: BusinessElements *)

BusinessElement(name, roles, description) ==
    [name |-> name, roles |-> roles, description |-> description]

SeedBusinessElements ==
    { BusinessElement("Product 2", {"admin", "moderator"},
                      "Description for Product 2"),
      BusinessElement("Service 1", {"admin", "manager", "user"},
                      "Description for Service 1") }

NoElement == BusinessElement("", {}, "")
ElementNames == {"Product 2", "Service 1", "Project Z"}

----------------------------------------------------------------------------
(* Requests.  A worker serves one request at a time, from the handler's     *)
(* first line to its response; between two database round trips (await)     *)
(* other workers run.  req[w] keeps the handler's locals and, at "done",    *)
(* the response, until the worker takes its next request.                   *)

NoToken == [sub |-> NoValue, exp |-> 0, type |-> "none", key |-> "none", segments |-> 0]
NoRow == [id |-> 0, user_id |-> 0, token |-> NoToken, expires_at |-> 0]
NoUser ==
    [id |-> 0, email |-> "", hashed_password |-> [salt |-> "", digest |-> ""],
     is_active |-> FALSE, is_role |-> ""]
NoPermission == Permission("", {})

Idle ==
    [op |-> "none", pc |-> "idle", token |-> NoToken, user_id |-> NoValue,
     token_record |-> NoRow, status |-> 0, access_token |-> NoToken,
     refresh_token |-> NoToken, replay |-> FALSE, deleted |-> FALSE,
     deleted_count |-> 0,
     resource |-> "", action |-> "", user |-> NoUser,
     permission |-> NoPermission, current_user |-> NoUser,
     target_id |-> 0, role_name |-> "", data |-> NoPermission,
     element_name |-> "", description |-> "",
     parameter |-> "", value |-> ""]

\* a token string with its signature altered, and a string that is no JWT
Tamper(t) == [t EXCEPT !.key = "forged"]
Malformed == [NoToken EXCEPT !.type = "garbage", !.segments = 1]

\* what a client may present as a refresh token: a token it was given, a
\* refresh token with the signature altered, a string that is no JWT
RefreshTokens == {t \in issued : t.type = "refresh"}
PresentedTokens == issued \cup {Tamper(t) : t \in RefreshTokens} \cup {Malformed}

\* w can take a request; of two free workers the first takes it
Free(w) ==
    /\ req[w].pc \in {"idle", "done"}
    /\ \A v \in Workers : v < w => req[v].pc # "idle"
    /\ served < MaxRequests
    /\ served' = served + 1

Respond(w, status) ==
    req' = [req EXCEPT ![w].pc = "done", ![w].status = status]

----------------------------------------------------------------------------
(* Clock *)

Tick ==
    /\ advances[1] < MaxTicks
    /\ clock' = clock + 1
    /\ advances' = <<advances[1] + 1, advances[2]>>
    /\ UNCHANGED <<business_elements, users, permissions, refresh_tokens,
                   next_token_id, issued, consumed, served, req>>

\* a long wait while no request is being served: one tick less than the
\* life `ttl` of a token
Jump(ttl) ==
    /\ advances[2] < MaxJumps
    /\ \A w \in Workers : req[w].pc \in {"idle", "done"}
    /\ clock' = clock + ttl - 1
    /\ advances' = <<advances[1], advances[2] + 1>>
    /\ UNCHANGED <<business_elements, users, permissions, refresh_tokens,
                   next_token_id, issued, consumed, served, req>>

----------------------------------------------------------------------------
(* routers/auth.py: login *)

Login(w, email, password) ==
    LET found == {u \in users : u.email = email}
        user == CHOOSE u \in found : TRUE
        row == refresh_row(PyInt(user.id))
        access_token == create_access_token(PyInt(user.id))
        kept == refresh_tokens \ expired_rows
        answer(status) == [Idle EXCEPT !.op = "login", !.pc = "done", !.status = status]
    IN  /\ Free(w)
        /\ IF found = {} \/ ~verify_password(password, user.hashed_password)
           THEN /\ req' = [req EXCEPT ![w] = answer(401)]
                /\ UNCHANGED <<refresh_tokens, next_token_id, issued>>
           ELSE IF ~user.is_active
           THEN /\ req' = [req EXCEPT ![w] = answer(401)]
                /\ UNCHANGED <<refresh_tokens, next_token_id, issued>>
           ELSE IF \E r \in kept : r.token = row.token
           THEN /\ req' = [req EXCEPT ![w] =
                             [answer(500) EXCEPT
                                !.deleted_count = Cardinality(expired_rows)]]
                /\ refresh_tokens' = kept
                /\ UNCHANGED <<next_token_id, issued>>
           ELSE /\ req' = [req EXCEPT ![w] =
                             [answer(200) EXCEPT
                                !.access_token = access_token,
                                !.refresh_token = row.token,
                                !.deleted_count = Cardinality(expired_rows)]]
                /\ refresh_tokens' = kept \cup {row}
                /\ next_token_id' = next_token_id + 1
                /\ issued' = issued \cup {access_token, row.token}
        /\ UNCHANGED <<business_elements, clock, advances, users, permissions, consumed>>

----------------------------------------------------------------------------
(* routers/auth.py: register *)

\* the id the users_id_seq sequence hands out next (no row is deleted where
\* register is used)
next_user_id ==
    (CHOOSE n \in {u.id : u \in users} : \A u \in users : u.id <= n) + 1

Register(w, email, password, password_confirm) ==
    LET answer(status) == [Idle EXCEPT !.op = "register", !.pc = "done",
                                       !.status = status]
        db_user == [id |-> next_user_id, email |-> email,
                    hashed_password |-> get_password_hash(password),
                    is_active |-> TRUE, is_role |-> "user"]
    IN  /\ Free(w)
        /\ IF \E u \in users : u.email = email
           THEN req' = [req EXCEPT ![w] = answer(409)] /\ UNCHANGED users
           ELSE IF password # password_confirm
           THEN req' = [req EXCEPT ![w] = answer(400)] /\ UNCHANGED users
           ELSE /\ users' = users \cup {db_user}
                /\ req' = [req EXCEPT ![w] = [answer(200) EXCEPT !.user = db_user]]
        /\ UNCHANGED <<business_elements, clock, advances, permissions,
                       refresh_tokens, next_token_id, issued, consumed>>

\* register as two sessions may interleave it.  Lines 44-58: the SELECT by
\* email and the two checks; the INSERT waits for db.commit()
RegisterCheck(w, email, password, password_confirm) ==
    LET start == [Idle EXCEPT !.op = "register"]
        db_user == [id |-> 0, email |-> email,
                    hashed_password |-> get_password_hash(password),
                    is_active |-> TRUE, is_role |-> "user"]
    IN  /\ Free(w)
        /\ IF \E u \in users : u.email = email
           THEN req' = [req EXCEPT ![w] = [start EXCEPT !.pc = "done", !.status = 409]]
           ELSE IF password # password_confirm
           THEN req' = [req EXCEPT ![w] = [start EXCEPT !.pc = "done", !.status = 400]]
           ELSE req' = [req EXCEPT ![w] = [start EXCEPT !.pc = "checked",
                                                        !.user = db_user]]
        /\ UNCHANGED <<business_elements, clock, advances, users, permissions,
                       refresh_tokens, next_token_id, issued, consumed>>

\* lines 70-74: db.add(db_user); db.commit().  unique=True on users.email:
\* the INSERT of an email another session has committed raises
\* IntegrityError, which nothing catches, and the request ends as 500.
RegisterCommit(w) ==
    LET db_user == [req[w].user EXCEPT !.id = next_user_id]
    IN  /\ req[w].op = "register" /\ req[w].pc = "checked"
        /\ IF \E u \in users : u.email = db_user.email
           THEN Respond(w, 500) /\ UNCHANGED users
           ELSE /\ users' = users \cup {db_user}
                /\ req' = [req EXCEPT ![w].pc = "done", ![w].status = 200,
                                      ![w].user = db_user]
        /\ UNCHANGED <<business_elements, clock, advances, permissions,
                       refresh_tokens, next_token_id, issued, consumed, served>>

----------------------------------------------------------------------------
(* routers/auth.py: refresh_token_endpoint *)

\* lines 146-163: decode and validate the presented token
RefreshDecode(w, token) ==
    LET payload == decode_token(token)
        start == [Idle EXCEPT !.op = "refresh", !.token = token,
                              !.replay = token \in consumed]
    IN  /\ Free(w)
        /\ IF payload = NoPayload \/ payload.type # "refresh" \/ py_not(payload.sub)
           THEN req' = [req EXCEPT ![w] =
                          [start EXCEPT !.pc = "done", !.status = 401]]
           ELSE req' = [req EXCEPT ![w] =
                          [start EXCEPT !.pc = "decoded", !.user_id = payload.sub]]
        /\ UNCHANGED <<business_elements, clock, advances, users, permissions, refresh_tokens,
                       next_token_id, issued, consumed>>

\* lines 165-173: find the token in the database
RefreshLookup(w) ==
    LET rows == {r \in refresh_tokens : r.token = req[w].token}
    IN  /\ req[w].op = "refresh" /\ req[w].pc = "decoded"
        /\ IF rows = {}
           THEN Respond(w, 401)
           ELSE req' = [req EXCEPT ![w].pc = "found",
                                   ![w].token_record = CHOOSE r \in rows : TRUE]
        /\ UNCHANGED <<business_elements, clock, advances, users, permissions, refresh_tokens,
                       next_token_id, issued, consumed, served>>

\* a revocation that ends every session of the record's owner
delete_row_of_owner(row) == {r \in refresh_tokens : r.user_id # row.user_id}

\* db.delete(token_record); db.commit(): DELETE ... WHERE id = :id.  A row
\* another session has already deleted matches nothing; the ORM warns and goes on.
delete_row(row) == {r \in refresh_tokens : r.id # row.id}

\* lines 175-187: the expiry check in the database and the revocation
RefreshRevoke(w) ==
    LET token_record == req[w].token_record
    IN  /\ req[w].op = "refresh" /\ req[w].pc = "found"
        /\ refresh_tokens' = delete_row(token_record)
        /\ IF token_record.expires_at < clock
           THEN req' = [req EXCEPT ![w].pc = "done", ![w].status = 401,
                                   ![w].deleted = token_record \in refresh_tokens]
           ELSE req' = [req EXCEPT ![w].pc = "revoked",
                                   ![w].deleted = token_record \in refresh_tokens]
        /\ UNCHANGED <<business_elements, clock, advances, users, permissions, next_token_id, issued,
                       consumed, served>>

\* lines 189-197: the new pair
RefreshIssue(w) ==
    LET row == refresh_row(req[w].user_id)
        access_token == create_access_token(req[w].user_id)
    IN  /\ req[w].op = "refresh" /\ req[w].pc = "revoked"
        /\ IF unique_violation(row)
           THEN /\ Respond(w, 500)
                /\ UNCHANGED <<refresh_tokens, next_token_id, issued, consumed>>
           ELSE /\ refresh_tokens' = refresh_tokens \cup {row}
                /\ next_token_id' = next_token_id + 1
                /\ req' = [req EXCEPT ![w].pc = "done", ![w].status = 200,
                                      ![w].access_token = access_token,
                                      ![w].refresh_token = row.token]
                /\ issued' = issued \cup {access_token, row.token}
                /\ consumed' = consumed \cup {req[w].token}
        /\ UNCHANGED <<business_elements, clock, advances, users, permissions, served>>

----------------------------------------------------------------------------
(* routers/auth.py: logout *)

\* lines 212-213, and 215-219 when nothing was found
LogoutLookup(w, token) ==
    LET rows == {r \in refresh_tokens : r.token = token}
        start == [Idle EXCEPT !.op = "logout", !.token = token]
    IN  /\ Free(w)
        /\ IF rows = {}
           THEN req' = [req EXCEPT ![w] =
                          [start EXCEPT !.pc = "done", !.status = 200]]
           ELSE req' = [req EXCEPT ![w] =
                          [start EXCEPT !.pc = "found",
                                        !.token_record = CHOOSE r \in rows : TRUE]]
        /\ UNCHANGED <<business_elements, clock, advances, users, permissions, refresh_tokens,
                       next_token_id, issued, consumed>>

\* lines 215-219
LogoutDelete(w) ==
    LET token_record == req[w].token_record
    IN  /\ req[w].op = "logout" /\ req[w].pc = "found"
        /\ refresh_tokens' = delete_row(token_record)
        /\ req' = [req EXCEPT ![w].pc = "done", ![w].status = 200,
                              ![w].deleted = token_record \in refresh_tokens]
        /\ UNCHANGED <<business_elements, clock, advances, users, permissions, next_token_id, issued,
                       consumed, served>>

----------------------------------------------------------------------------
(* routers/auth.py: cleanup_tokens *)

CleanupTokens(w) ==
    /\ Free(w)
    /\ refresh_tokens' = refresh_tokens \ expired_rows
    /\ req' = [req EXCEPT ![w] =
                 [Idle EXCEPT !.op = "cleanup", !.pc = "done", !.status = 200,
                              !.deleted_count = Cardinality(expired_rows)]]
    /\ UNCHANGED <<business_elements, clock, advances, users, permissions, next_token_id, issued,
                   consumed>>

----------------------------------------------------------------------------
(* tools/auth_func.py: the authorization gate *)

\* lines 156-185
\* get_current_user without the check of the token kind
get_current_user_any_kind(token) ==
    LET payload == decode_token(token)
    IN  IF payload = NoPayload THEN [status |-> 401, user_id |-> NoValue]
        ELSE IF py_not(payload.sub) THEN [status |-> 401, user_id |-> NoValue]
        ELSE [status |-> 200, user_id |-> py_int(payload.sub)]

get_current_user(token) ==
    LET payload == decode_token(token)
    IN  IF payload = NoPayload THEN [status |-> 401, user_id |-> NoValue]
        ELSE IF payload.type # "access" THEN [status |-> 401, user_id |-> NoValue]
        ELSE IF py_not(payload.sub) THEN [status |-> 401, user_id |-> NoValue]
        ELSE [status |-> 200, user_id |-> py_int(payload.sub)]

\* a lookup that finds a user only while the user holds a refresh record
user_by_id_in_session(user_id) ==
    LET rows == {u \in users : /\ u.id = user_id
                               /\ \E r \in refresh_tokens : r.user_id = u.id}
    IN  IF rows = {} THEN NoUser ELSE CHOOSE u \in rows : TRUE

\* select(User).filter(User.id == user_id) ... scalar_one_or_none()
user_by_id(user_id) ==
    LET rows == {u \in users : u.id = user_id}
    IN  IF rows = {} THEN NoUser ELSE CHOOSE u \in rows : TRUE

\* a lookup that falls back to the default "user" row for an unknown role
permission_by_role_default(role_name) ==
    LET found == {p \in permissions : p.role_name = role_name}
    IN  IF found = {} THEN Permission("user", UserFlags)
        ELSE CHOOSE p \in found : TRUE

\* select(Permissions).filter(Permissions.role_name == role) ... scalar_one_or_none()
permission_by_role(role_name) ==
    LET rows == {p \in permissions : p.role_name = role_name}
    IN  IF rows = {} THEN NoPermission ELSE CHOOSE p \in rows : TRUE

\* line 224
\* check_permission without the admin bypass
is_admin_never(user) == FALSE

is_admin(user) == user.is_role = "admin"

\* line 240
\* the attribute name built as {resource}_{action}
permission_attr_swapped(action, resource) == resource \o "_" \o action

permission_attr(action, resource) == action \o "_" \o resource

\* line 243: hasattr(Permissions, permission_attr)
has_attr(attr) == attr \in FlagColumns \cup {"id", "role_name"}

\* line 250: getattr(permission, permission_attr, False), as a truth value
get_attr(permission, attr) ==
    IF attr \in FlagColumns THEN permission.flags[attr] ELSE TRUE

\* what a client may present as a bearer token: a token it was given, one with
\* the signature altered, a string that is no JWT, and a token signed with the
\* key that carries no subject
Unsubjected ==
    jwt_encode([sub |-> NoValue, exp |-> timestamp_int(clock + AccessTicks),
                type |-> "access"], SECRET_KEY)
AccessTokens == {t \in issued : t.type = "access"}
BearerTokens ==
    issued \cup {Tamper(t) : t \in AccessTokens} \cup {Malformed, Unsubjected}

\* a gate that revokes the stored record of a token it refuses
Authenticate_revoking(w, request) ==
    LET auth == get_current_user(request.token)
    IN  /\ Free(w)
        /\ IF auth.status = 401
           THEN /\ req' = [req EXCEPT ![w] =
                             [request EXCEPT !.pc = "done", !.status = 401]]
                /\ refresh_tokens' =
                      {r \in refresh_tokens : r.token # request.token}
           ELSE /\ req' = [req EXCEPT ![w] =
                             [request EXCEPT !.pc = "authenticated",
                                             !.user_id = auth.user_id]]
                /\ UNCHANGED refresh_tokens
        /\ UNCHANGED <<business_elements, clock, advances, users, permissions,
                       next_token_id, issued, consumed>>

\* the gate's dependencies are resolved: get_current_user, then the request
\* waits for its first database round trip
Authenticate(w, request) ==
    LET auth == get_current_user(request.token)
    IN  /\ Free(w)
        /\ IF auth.status = 401
           THEN req' = [req EXCEPT ![w] =
                          [request EXCEPT !.pc = "done", !.status = 401]]
           ELSE req' = [req EXCEPT ![w] =
                          [request EXCEPT !.pc = "authenticated",
                                          !.user_id = auth.user_id]]
        /\ UNCHANGED <<business_elements, clock, advances, users, permissions, refresh_tokens,
                       next_token_id, issued, consumed>>

\* check_permission answering a missing user as an authentication failure
check_user_unauthorized(user) ==
    IF user = NoUser THEN [pc |-> "done", status |-> 401]
    ELSE IF is_admin(user) THEN [pc |-> "permitted", status |-> 0]
    ELSE [pc |-> "user_loaded", status |-> 0]

\* check_permission, lines 213-225: what the loaded user decides
check_user(user) ==
    IF user = NoUser THEN [pc |-> "done", status |-> 404]
    ELSE IF is_admin(user) THEN [pc |-> "permitted", status |-> 0]
    ELSE [pc |-> "user_loaded", status |-> 0]

\* check_permission letting a role without a permission row through
check_flag_open(permission, resource, action) ==
    LET attr == permission_attr(action, resource)
    IN  IF permission = NoPermission THEN [pc |-> "permitted", status |-> 0]
        ELSE IF ~has_attr(attr) THEN [pc |-> "done", status |-> 403]
        ELSE IF ~get_attr(permission, attr) THEN [pc |-> "done", status |-> 403]
        ELSE [pc |-> "permitted", status |-> 0]

\* check_permission, lines 233-258: what the loaded permission row decides
check_flag(permission, resource, action) ==
    LET attr == permission_attr(action, resource)
    IN  IF permission = NoPermission THEN [pc |-> "done", status |-> 403]
        ELSE IF ~has_attr(attr) THEN [pc |-> "done", status |-> 403]
        ELSE IF ~get_attr(permission, attr) THEN [pc |-> "done", status |-> 403]
        ELSE [pc |-> "permitted", status |-> 0]

\* check_permission, lines 213-225
CheckUser(w) ==
    LET user == user_by_id(req[w].user_id.v)
        out == check_user(user)
    IN  /\ req[w].pc = "authenticated"
        /\ req' = [req EXCEPT ![w].pc = out.pc, ![w].status = out.status,
                              ![w].user = user]
        /\ UNCHANGED <<business_elements, clock, advances, users, permissions, refresh_tokens,
                       next_token_id, issued, consumed, served>>

\* check_permission, lines 227-258
CheckPermission(w) ==
    LET permission == permission_by_role(req[w].user.is_role)
        out == check_flag(permission, req[w].resource, req[w].action)
    IN  /\ req[w].pc = "user_loaded"
        /\ req' = [req EXCEPT ![w].pc = out.pc, ![w].status = out.status,
                              ![w].permission = permission]
        /\ UNCHANGED <<business_elements, clock, advances, users, permissions, refresh_tokens,
                       next_token_id, issued, consumed, served>>

\* permission_checker, lines 284-287: the user is loaded again and yielded
YieldUser(w) ==
    /\ req[w].pc = "permitted"
    /\ req' = [req EXCEPT ![w].pc = "yielded",
                          ![w].current_user = user_by_id(req[w].user_id.v)]
    /\ UNCHANGED <<business_elements, clock, advances, users, permissions, refresh_tokens,
                   next_token_id, issued, consumed, served>>

----------------------------------------------------------------------------
(* Protected endpoints *)

\* an endpoint behind require_permission(resource, action) that only reads
\* (get_all_users, get_all_permissions, get_permissions_by_role, ...)
ReadRequest(w, token, resource, action) ==
    Authenticate(w, [Idle EXCEPT !.op = "read", !.token = token,
                                 !.resource = resource, !.action = action])

ReadBody(w) ==
    /\ req[w].op = "read" /\ req[w].pc = "yielded"
    /\ Respond(w, 200)
    /\ UNCHANGED <<business_elements, clock, advances, users, permissions, refresh_tokens,
                   next_token_id, issued, consumed, served>>

\* routers/admin.py: update_user_role
UpdateUserRoleRequest(w, token, user_id, new_role) ==
    Authenticate(w, [Idle EXCEPT !.op = "update_user_role", !.token = token,
                                 !.resource = "users", !.action = "update",
                                 !.target_id = user_id, !.role_name = new_role])

UpdateUserRoleBody(w) ==
    LET user == user_by_id(req[w].target_id)
    IN  /\ req[w].op = "update_user_role" /\ req[w].pc = "yielded"
        /\ IF user = NoUser
           THEN Respond(w, 404) /\ UNCHANGED users
           ELSE /\ users' = (users \ {user})
                              \cup {[user EXCEPT !.is_role = req[w].role_name]}
                /\ Respond(w, 200)
        /\ UNCHANGED <<business_elements, clock, advances, permissions, refresh_tokens,
                       next_token_id, issued, consumed, served>>

\* routers/admin.py: delete_user.  With no current_user, current_user.id
\* raises AttributeError and the request ends as 500.
DeleteUserRequest(w, token, user_id) ==
    Authenticate(w, [Idle EXCEPT !.op = "delete_user", !.token = token,
                                 !.resource = "users", !.action = "delete",
                                 !.target_id = user_id])

DeleteUserBody(w) ==
    LET user == user_by_id(req[w].target_id)
    IN  /\ req[w].op = "delete_user" /\ req[w].pc = "yielded"
        /\ IF user = NoUser
           THEN Respond(w, 404) /\ UNCHANGED users
           ELSE IF req[w].current_user = NoUser
           THEN Respond(w, 500) /\ UNCHANGED users
           ELSE IF user.id = req[w].current_user.id
           THEN Respond(w, 400) /\ UNCHANGED users
           ELSE users' = users \ {user} /\ Respond(w, 200)
        /\ UNCHANGED <<business_elements, clock, advances, permissions, refresh_tokens,
                       next_token_id, issued, consumed, served>>

\* routers/admin.py: deactivate_user
DeactivateUserRequest(w, token, user_id) ==
    Authenticate(w, [Idle EXCEPT !.op = "deactivate_user", !.token = token,
                                 !.resource = "users", !.action = "update",
                                 !.target_id = user_id])

DeactivateUserBody(w) ==
    LET user == user_by_id(req[w].target_id)
    IN  /\ req[w].op = "deactivate_user" /\ req[w].pc = "yielded"
        /\ IF user = NoUser
           THEN Respond(w, 404) /\ UNCHANGED users
           ELSE IF req[w].current_user = NoUser
           THEN Respond(w, 500) /\ UNCHANGED users
           ELSE IF user.id = req[w].current_user.id
           THEN Respond(w, 400) /\ UNCHANGED users
           ELSE /\ users' = (users \ {user}) \cup {[user EXCEPT !.is_active = FALSE]}
                /\ Respond(w, 200)
        /\ UNCHANGED <<business_elements, clock, advances, permissions,
                       refresh_tokens, next_token_id, issued, consumed, served>>

\* routers/permission.py: create_permission
CreatePermissionRequest(w, token, permission_data) ==
    Authenticate(w, [Idle EXCEPT !.op = "create_permission", !.token = token,
                                 !.resource = "permissions", !.action = "create",
                                 !.data = permission_data])

CreatePermissionBody(w) ==
    /\ req[w].op = "create_permission" /\ req[w].pc = "yielded"
    /\ IF permission_by_role(req[w].data.role_name) # NoPermission
       THEN Respond(w, 409) /\ UNCHANGED permissions
       ELSE permissions' = permissions \cup {req[w].data} /\ Respond(w, 200)
    /\ UNCHANGED <<business_elements, clock, advances, users, refresh_tokens, next_token_id,
                   issued, consumed, served>>

\* routers/permission.py: update_permissions_by_role.  Renaming the row to a
\* role_name another row has violates unique=True: IntegrityError, 500.
UpdatePermissionsRequest(w, token, role_name, permission_data) ==
    Authenticate(w, [Idle EXCEPT !.op = "update_permissions", !.token = token,
                                 !.resource = "permissions", !.action = "update",
                                 !.role_name = role_name, !.data = permission_data])

UpdatePermissionsBody(w) ==
    LET permission == permission_by_role(req[w].role_name)
        others == permissions \ {permission}
    IN  /\ req[w].op = "update_permissions" /\ req[w].pc = "yielded"
        /\ IF permission = NoPermission
           THEN Respond(w, 404) /\ UNCHANGED permissions
           ELSE IF \E p \in others : p.role_name = req[w].data.role_name
           THEN Respond(w, 500) /\ UNCHANGED permissions
           ELSE permissions' = others \cup {req[w].data} /\ Respond(w, 200)
        /\ UNCHANGED <<business_elements, clock, advances, users, refresh_tokens, next_token_id,
                       issued, consumed, served>>

\* routers/permission.py: delete_permissions_by_role
DeletePermissionsRequest(w, token, role_name) ==
    Authenticate(w, [Idle EXCEPT !.op = "delete_permissions", !.token = token,
                                 !.resource = "permissions", !.action = "delete",
                                 !.role_name = role_name])

DeletePermissionsBody(w) ==
    LET permission == permission_by_role(req[w].role_name)
    IN  /\ req[w].op = "delete_permissions" /\ req[w].pc = "yielded"
        /\ IF permission = NoPermission
           THEN Respond(w, 404) /\ UNCHANGED permissions
           ELSE permissions' = permissions \ {permission} /\ Respond(w, 200)
        /\ UNCHANGED <<business_elements, clock, advances, users, refresh_tokens, next_token_id,
                       issued, consumed, served>>

----------------------------------------------------------------------------
(* routers/user.py: the profile endpoints *)

\* the columns of User: what hasattr(user, parameter) finds on a loaded row
UserColumns ==
    { "id", "first_name", "last_name", "patronymic", "email",
      "hashed_password", "is_active", "is_role" }

\* line 128: hasattr(user, parameter); None has none of the columns
user_has_attr(user, parameter) == user # NoUser /\ parameter \in UserColumns

\* line 135: setattr(user, parameter, value).  Columns the model does not
\* keep (the three names) leave the record as it is.
set_attr(user, parameter, value) ==
    IF parameter \in DOMAIN user THEN [user EXCEPT ![parameter] = value]
    ELSE user

\* update_profile behind require_permission("users", "update")
UpdateProfileRequest(w, token, parameter, value) ==
    Authenticate(w, [Idle EXCEPT !.op = "update_profile", !.token = token,
                                 !.resource = "users", !.action = "update",
                                 !.parameter = parameter, !.value = value])

\* lines 123-138; with no current_user the handler falls off its end and
\* FastAPI answers 200 with null
UpdateProfileBody(w) ==
    LET current_user == req[w].current_user
        user == user_by_id(current_user.id)
    IN  /\ req[w].op = "update_profile" /\ req[w].pc = "yielded"
        /\ IF current_user = NoUser
           THEN Respond(w, 200) /\ UNCHANGED users
           ELSE IF ~user_has_attr(user, req[w].parameter)
           THEN Respond(w, 400) /\ UNCHANGED users
           ELSE /\ users' = (users \ {user})
                       \cup {set_attr(user, req[w].parameter, req[w].value)}
                /\ Respond(w, 200)
        /\ UNCHANGED <<business_elements, clock, advances, permissions,
                       refresh_tokens, next_token_id, issued, consumed, served>>

\* deactivate_account behind require_permission("users", "update")
DeactivateAccountRequest(w, token) ==
    Authenticate(w, [Idle EXCEPT !.op = "deactivate_account", !.token = token,
                                 !.resource = "users", !.action = "update"])

\* lines 82-93; user.is_role on a row that is gone raises AttributeError
DeactivateAccountBody(w) ==
    LET current_user == req[w].current_user
        user == user_by_id(current_user.id)
    IN  /\ req[w].op = "deactivate_account" /\ req[w].pc = "yielded"
        /\ IF current_user = NoUser
           THEN Respond(w, 200) /\ UNCHANGED users
           ELSE IF user = NoUser
           THEN Respond(w, 500) /\ UNCHANGED users
           ELSE IF user.is_role = "admin"
           THEN Respond(w, 200) /\ UNCHANGED users
           ELSE /\ users' = (users \ {user}) \cup {[user EXCEPT !.is_active = FALSE]}
                /\ Respond(w, 200)
        /\ UNCHANGED <<business_elements, clock, advances, permissions,
                       refresh_tokens, next_token_id, issued, consumed, served>>

----------------------------------------------------------------------------
(* routers/business_elements.py: view_business_element_object *)

\* the tables a handler reaches through its session
Database ==
    [users |-> users, permissions |-> permissions,
     business_elements |-> business_elements]

\* select(BusinessElements).filter(BusinessElements.name == element_name)
element_by_name(db, element_name) ==
    LET rows == {e \in db.business_elements : e.name = element_name}
    IN  IF rows = {} THEN NoElement ELSE CHOOSE e \in rows : TRUE

\* x.id raises AttributeError unless x is a User object
attribute_error(x) == x.ty # "user"

\* the view behind a read_business_elements check of the permission store
view_business_element_object_gated(element_name, current_user, db) ==
    LET element == element_by_name(db, element_name)
        owners == {u \in db.users : u.id = current_user.v}
        granted == \E u \in owners, p \in db.permissions :
                      /\ p.role_name = u.is_role
                      /\ p.flags["read_business_elements"]
    IN  IF ~granted THEN [status |-> 403, description |-> ""]
        ELSE IF attribute_error(current_user)
        THEN [status |-> 500, description |-> ""]
        ELSE LET rows == {u \in db.users : u.id = current_user.id}
                 user_data == IF rows = {} THEN NoUser ELSE CHOOSE u \in rows : TRUE
             IN  IF element = NoElement THEN [status |-> 404, description |-> ""]
                 ELSE IF user_data = NoUser THEN [status |-> 404, description |-> ""]
                 ELSE IF user_data.is_role \notin element.roles
                 THEN [status |-> 403, description |-> ""]
                 ELSE [status |-> 200, description |-> element.description]

\* lines 249-278.  current_user is what get_current_user returns, an int, so
\* building the second query (current_user.id, line 254) raises
\* AttributeError and the request ends as 500.
view_business_element_object(element_name, current_user, db) ==
    LET element == element_by_name(db, element_name)
    IN  IF attribute_error(current_user)
        THEN [status |-> 500, description |-> ""]
        ELSE LET rows == {u \in db.users : u.id = current_user.id}
                 user_data == IF rows = {} THEN NoUser ELSE CHOOSE u \in rows : TRUE
             IN  IF element = NoElement THEN [status |-> 404, description |-> ""]
                 ELSE IF user_data = NoUser THEN [status |-> 404, description |-> ""]
                 ELSE IF user_data.is_role \notin element.roles
                 THEN [status |-> 403, description |-> ""]
                 ELSE [status |-> 200, description |-> element.description]

\* Depends(get_current_user), line 228
ViewRequest(w, token, element_name) ==
    Authenticate(w, [Idle EXCEPT !.op = "view", !.token = token,
                                 !.element_name = element_name])

ViewBody(w) ==
    LET out == view_business_element_object(req[w].element_name,
                                            req[w].user_id, Database)
    IN  /\ req[w].op = "view" /\ req[w].pc = "authenticated"
        /\ req' = [req EXCEPT ![w].pc = "done", ![w].status = out.status,
                              ![w].description = out.description]
        /\ UNCHANGED <<business_elements, clock, advances, users, permissions,
                       refresh_tokens, next_token_id, issued, consumed, served>>

----------------------------------------------------------------------------

Init ==
    /\ clock = 0
    /\ advances = <<0, 0>>
    /\ users = SeedUsers
    /\ permissions = SeedPermissions
    /\ business_elements = SeedBusinessElements
    /\ refresh_tokens = {}
    /\ next_token_id = 1
    /\ issued = {}
    /\ consumed = {}
    /\ served = 0
    /\ req = [w \in Workers |-> Idle]

Next ==
    \/ Tick
    \/ Jump(RefreshTicks)
    \/ \E w \in Workers, email \in Emails, password \in Passwords :
          Login(w, email, password)
    \/ \E w \in Workers, t \in PresentedTokens : RefreshDecode(w, t)
    \/ \E w \in Workers : RefreshLookup(w)
    \/ \E w \in Workers : RefreshRevoke(w)
    \/ \E w \in Workers : RefreshIssue(w)
    \/ \E w \in Workers, t \in RefreshTokens \cup {Malformed} : LogoutLookup(w, t)
    \/ \E w \in Workers : LogoutDelete(w)
    \/ \E w \in Workers : CleanupTokens(w)

Spec == Init /\ [][Next]_vars

----------------------------------------------------------------------------
(* The protected endpoints, one request after the other *)

Gatekeepers == {1}

\* the pairs the gate is asked about: the fifteen defined ones, and pairs
\* with a resource or an action that has no column
GatePairs ==
    (Resources \X Actions) \cup {<<"reports", "read">>, <<"users", "export">>}

\* both seed users have logged in at time 0, each holding its token pair
InitGate ==
    LET rows == { [id |-> u.id, user_id |-> u.id,
                   token |-> refresh_jwt(PyInt(u.id)),
                   expires_at |-> clock + RefreshTicks] : u \in SeedUsers }
    IN  /\ clock = 0
        /\ advances = <<0, 0>>
        /\ users = SeedUsers
        /\ permissions = SeedPermissions
        /\ business_elements = SeedBusinessElements
        /\ refresh_tokens = rows
        /\ next_token_id = Cardinality(SeedUsers) + 1
        /\ issued = {r.token : r \in rows}
                      \cup {create_access_token(PyInt(u.id)) : u \in SeedUsers}
        /\ consumed = {}
        /\ served = Cardinality(SeedUsers)
        /\ req = [w \in Workers |-> Idle]

NextGate ==
    \/ Jump(AccessTicks + 1)
    \/ \E w \in Gatekeepers, t \in BearerTokens, pair \in GatePairs :
          ReadRequest(w, t, pair[1], pair[2])
    \/ \E w \in Gatekeepers, t \in AccessTokens, u \in UserIds, r \in RoleNames :
          UpdateUserRoleRequest(w, t, u, r)
    \/ \E w \in Gatekeepers, t \in AccessTokens, u \in UserIds :
          DeleteUserRequest(w, t, u)
    \/ \E w \in Gatekeepers, t \in AccessTokens, d \in PermissionData :
          CreatePermissionRequest(w, t, d)
    \/ \E w \in Gatekeepers, t \in AccessTokens, d \in PermissionData :
          UpdatePermissionsRequest(w, t, "user", d)
    \/ \E w \in Gatekeepers, t \in AccessTokens, r \in RoleNames :
          DeletePermissionsRequest(w, t, r)
    \/ \E w \in Gatekeepers : CheckUser(w)
    \/ \E w \in Gatekeepers : CheckPermission(w)
    \/ \E w \in Gatekeepers : YieldUser(w)
    \/ \E w \in Gatekeepers : ReadBody(w)
    \/ \E w \in Gatekeepers : UpdateUserRoleBody(w)
    \/ \E w \in Gatekeepers : DeleteUserBody(w)
    \/ \E w \in Gatekeepers : CreatePermissionBody(w)
    \/ \E w \in Gatekeepers : UpdatePermissionsBody(w)
    \/ \E w \in Gatekeepers : DeletePermissionsBody(w)

SpecGate == InitGate /\ [][NextGate]_vars

----------------------------------------------------------------------------
(* Refresh-token lifecycle: checked under Spec *)

\* w has answered a refresh request
Refreshed(w) == req[w].op = "refresh" /\ req[w].pc = "done"

\* p and q served the same token string and both found the same stored row
SameRecord(p, q) ==
    /\ p # q
    /\ req[p].token = req[q].token
    /\ req[p].token_record # NoRow
    /\ req[p].token_record = req[q].token_record

RefreshSucceeds(w) ==
    /\ req[w].op = "refresh" /\ req[w].pc = "revoked"
    /\ req'[w].pc = "done" /\ req'[w].status = 200

----------------------------------------------------------------------------
(* The permission gate *)

GatedOps ==
    {"read", "update_user_role", "delete_user", "create_permission",
     "update_permissions", "delete_permissions"}

\* worker w receives a request for a gated endpoint in this step
GateArrives(w) ==
    /\ served' = served + 1
    /\ req[w].pc \in {"idle", "done"}
    /\ req'[w].op \in GatedOps
    /\ \A v \in Workers \ {w} : req'[v] = req[v]

\* the gate loads the user of w's request in this step
GateLoadsUser(w) ==
    /\ req[w].op \in GatedOps
    /\ req[w].pc = "authenticated" /\ req'[w].pc # "authenticated"

\* the gate loads the permission record of the user's role in this step
GateLoadsPermission(w) ==
    /\ req[w].op \in GatedOps
    /\ req[w].pc = "user_loaded" /\ req'[w].pc # "user_loaded"

StoredUser(user_id) == {u \in users : u.id = user_id}
StoredPermission(role_name) == {p \in permissions : p.role_name = role_name}

\* the flag of the record that the pair (resource, action) names
FlagNamed ==
    [pair \in Resources \X Actions |->
        CASE pair = <<"users", "create">> -> "create_users"
          [] pair = <<"users", "read">> -> "read_users"
          [] pair = <<"users", "read_all">> -> "read_all_users"
          [] pair = <<"users", "update">> -> "update_users"
          [] pair = <<"users", "delete">> -> "delete_users"
          [] pair = <<"permissions", "create">> -> "create_permissions"
          [] pair = <<"permissions", "read">> -> "read_permissions"
          [] pair = <<"permissions", "read_all">> -> "read_all_permissions"
          [] pair = <<"permissions", "update">> -> "update_permissions"
          [] pair = <<"permissions", "delete">> -> "delete_permissions"
          [] pair = <<"business_elements", "create">> -> "create_business_elements"
          [] pair = <<"business_elements", "read">> -> "read_business_elements"
          [] pair = <<"business_elements", "read_all">> -> "read_all_business_elements"
          [] pair = <<"business_elements", "update">> -> "update_business_elements"
          [] pair = <<"business_elements", "delete">> -> "delete_business_elements"]

\* C6: whenever the gate loads a user whose role is "admin", the check is
\* allowed, whatever resource and action the endpoint declares and whatever
\* the permission store holds (no "admin" record, no flag for the pair).
C6_AdminIsAlwaysAllowed ==
    [][\A w \in Workers :
          ( /\ GateLoadsUser(w)
            /\ \E u \in StoredUser(req[w].user_id.v) : u.is_role = "admin" )
          => req'[w].pc = "permitted"]_vars

\* an admin was allowed to an undefined pair while no "admin" record existed
C6_Witness ==
    \E w \in Workers :
        /\ req[w].op \in GatedOps /\ req[w].pc = "permitted"
        /\ req[w].user # NoUser /\ req[w].user.is_role = "admin"
        /\ StoredPermission("admin") = {}
        /\ <<req[w].resource, req[w].action>> \notin Resources \X Actions

\* C7: whenever the gate looks up the permission record of a non-admin user
\* whose role has no record, the request ends with 403, whatever resource
\* and action the endpoint declares.
C7_RoleWithoutRecordIsForbidden ==
    [][\A w \in Workers :
          ( /\ GateLoadsPermission(w)
            /\ req[w].user.is_role # "admin"
            /\ StoredPermission(req[w].user.is_role) = {} )
          => req'[w].pc = "done" /\ req'[w].status = 403]_vars

\* a non-admin whose role has no record was refused
C7_Witness ==
    \E w \in Workers :
        /\ req[w].op \in GatedOps /\ req[w].pc = "done" /\ req[w].status = 403
        /\ req[w].user # NoUser /\ req[w].user.is_role # "admin"
        /\ req[w].permission = NoPermission
        /\ StoredPermission(req[w].user.is_role) = {}

\* C8: whenever the gate looks up the permission record of a non-admin user
\* whose role has one, for any of the 15 resource/action pairs, the check is
\* allowed if the record's flag named action_resource is true and the
\* request ends with 403 otherwise.
C8_FlagDecides ==
    [][\A w \in Workers :
          ( /\ GateLoadsPermission(w)
            /\ req[w].user.is_role # "admin"
            /\ <<req[w].resource, req[w].action>> \in Resources \X Actions )
          => \A p \in StoredPermission(req[w].user.is_role) :
                IF p.flags[FlagNamed[<<req[w].resource, req[w].action>>]]
                THEN req'[w].pc = "permitted"
                ELSE req'[w].pc = "done" /\ req'[w].status = 403]_vars

\* a non-admin was refused for a pair whose flag is false although the
\* record grants other pairs
C8_Witness ==
    \E w \in Workers :
        /\ req[w].op \in GatedOps /\ req[w].pc = "done" /\ req[w].status = 403
        /\ req[w].user # NoUser /\ req[w].user.is_role # "admin"
        /\ req[w].permission # NoPermission
        /\ <<req[w].resource, req[w].action>> \in Resources \X Actions
        /\ ~req[w].permission.flags[FlagNamed[<<req[w].resource, req[w].action>>]]
        /\ \E c \in FlagColumns : req[w].permission.flags[c]

\* what makes a bearer token unacceptable to the gate at the current time
BadBearer(token) ==
    \/ token.segments # 3
    \/ token.key # SECRET_KEY
    \/ token.exp * TicksPerSecond <= clock
    \/ token.type # "access"
    \/ token.sub = NoValue

\* C9: a request to a gated endpoint whose bearer token is malformed, badly
\* signed, expired, of the refresh kind or without a subject ends with 401
\* at once, whatever pair the endpoint declares and whatever the stores hold.
C9_BadBearerIsUnauthorized ==
    [][\A w \in Workers :
          (GateArrives(w) /\ BadBearer(req'[w].token))
          => req'[w].pc = "done" /\ req'[w].status = 401]_vars

\* the refresh token of a stored admin was presented as a bearer and refused
C9_Witness ==
    \E w \in Workers :
        /\ req[w].op \in GatedOps /\ req[w].pc = "done" /\ req[w].status = 401
        /\ req[w].token.type = "refresh" /\ req[w].token.key = SECRET_KEY
        /\ req[w].token.exp * TicksPerSecond > clock
        /\ \E u \in StoredUser(req[w].token.sub.v) : u.is_role = "admin"

\* C10: whenever the gate loads the user of a valid access token and the
\* identity store holds no user with the token's subject, the request ends
\* with 404, whatever pair the endpoint declares.
C10_AbsentSubjectIsNotFound ==
    [][\A w \in Workers :
          (GateLoadsUser(w) /\ StoredUser(req[w].user_id.v) = {})
          => req'[w].pc = "done" /\ req'[w].status = 404]_vars

\* an issued, unexpired access token of a deleted user got 404
C10_Witness ==
    \E w \in Workers :
        /\ req[w].op \in GatedOps /\ req[w].pc = "done" /\ req[w].status = 404
        /\ req[w].user = NoUser
        /\ req[w].token \in issued /\ ~BadBearer(req[w].token)
        /\ StoredUser(req[w].token.sub.v) = {}
----------------------------------------------------------------------------
(* Two protected requests served concurrently: a read and a delete_user *)

NextGateRace ==
    \/ \E w \in Workers, t \in BearerTokens, pair \in GatePairs :
          ReadRequest(w, t, pair[1], pair[2])
    \/ \E w \in Workers, t \in AccessTokens, u \in UserIds :
          DeleteUserRequest(w, t, u)
    \/ \E w \in Workers : CheckUser(w)
    \/ \E w \in Workers : CheckPermission(w)
    \/ \E w \in Workers : YieldUser(w)
    \/ \E w \in Workers : ReadBody(w)
    \/ \E w \in Workers : DeleteUserBody(w)

SpecGateRace == InitGate /\ [][NextGateRace]_vars

\* C11: whenever the gate does not reject, what it yields to the protected
\* operation is the identity record whose id is the token's subject, never an
\* absent value, also when a delete_user of that identity runs between the
\* permission check and the second load.
C11_YieldedIdentityIsPresent ==
    \A w \in Workers :
        req[w].op \in GatedOps /\ req[w].pc = "yielded"
            => /\ req[w].current_user # NoUser
               /\ req[w].current_user.id = req[w].user_id.v
----------------------------------------------------------------------------
(* The gate over time: checked under SpecGate *)

\* w's handler body answers 200 in this step
BodySucceeds(w, op) ==
    /\ req[w].op = op /\ req[w].pc = "yielded"
    /\ req'[w].pc = "done" /\ req'[w].status = 200

\* C12: the gate fails closed over time.  A successful
\* delete_permissions_by_role of role r, and a successful
\* update_permissions_by_role that renames the record of r, leave no record
\* named r; and from then on, as long as no record is named r, every gate
\* evaluation for a non-admin identity with role r ends with 403, for every
\* pair and also for access tokens issued before the change.
C12_FailsClosedOverTime ==
    [][\A w \in Workers :
          /\ BodySucceeds(w, "delete_permissions")
                => ~\E p \in permissions' : p.role_name = req[w].role_name
          /\ ( /\ BodySucceeds(w, "update_permissions")
               /\ req[w].data.role_name # req[w].role_name )
                => ~\E p \in permissions' : p.role_name = req[w].role_name
          /\ ( /\ GateLoadsPermission(w)
               /\ req[w].user.is_role # "admin"
               /\ \E p \in SeedPermissions : p.role_name = req[w].user.is_role
               /\ StoredPermission(req[w].user.is_role) = {} )
                => req'[w].pc = "done" /\ req'[w].status = 403]_vars

\* the record of "user" was renamed to "guest"; a user holding an access
\* token issued before the change was then refused
C12_Witness ==
    \E w \in Workers :
        /\ req[w].op \in GatedOps /\ req[w].pc = "done" /\ req[w].status = 403
        /\ req[w].user # NoUser /\ req[w].user.is_role = "user"
        /\ req[w].token \in issued
        /\ req[w].token.exp = timestamp_int(AccessTicks)
        /\ StoredPermission("user") = {}
        /\ StoredPermission("guest") # {}
----------------------------------------------------------------------------
(* Viewing a business element, from any state of the three stores *)

\* ivan's role as update_user_role may have left it, or ivan deleted
UserStores ==
    { {IF u.id = 2 THEN [u EXCEPT !.is_role = r] ELSE u : u \in SeedUsers} :
         r \in {"user", "manager", "guest"} }
    \cup { {u \in SeedUsers : u.id = 1} }

\* the permission table as the permission endpoints may have left it
PermissionStores ==
    { SeedPermissions, {},
      {Permission("admin", AdminFlags)},
      {Permission("admin", AdminFlags), Permission("user", FlagColumns)} }

\* the element table as the business element endpoints may have left it
ElementStores ==
    { SeedBusinessElements,
      {e \in SeedBusinessElements : e.name = "Product 2"} }

InitView ==
    LET rows == { [id |-> u.id, user_id |-> u.id,
                   token |-> refresh_jwt(PyInt(u.id)),
                   expires_at |-> clock + RefreshTicks] : u \in SeedUsers }
    IN  /\ clock = 0
        /\ advances = <<0, 0>>
        /\ users \in UserStores
        /\ permissions \in PermissionStores
        /\ business_elements \in ElementStores
        /\ refresh_tokens = rows
        /\ next_token_id = Cardinality(SeedUsers) + 1
        /\ issued = {r.token : r \in rows}
                      \cup {create_access_token(PyInt(u.id)) : u \in SeedUsers}
        /\ consumed = {}
        /\ served = Cardinality(SeedUsers)
        /\ req = [w \in Workers |-> Idle]

NextView ==
    \/ Jump(AccessTicks + 1)
    \/ \E w \in Gatekeepers, t \in BearerTokens, e \in ElementNames :
          ViewRequest(w, t, e)
    \/ \E w \in Gatekeepers : ViewBody(w)

SpecView == InitView /\ [][NextView]_vars

\* the handler of w's view request answers in this step
ViewAnswers(w) ==
    /\ req[w].op = "view" /\ req[w].pc = "authenticated"
    /\ req'[w].pc = "done"

StoredElement(name) == {e \in business_elements : e.name = name}

\* C13: for a valid access token of an existing identity, the view of an
\* existing element answers 200 with the element's description if the
\* identity's current role is in the element's role list and 403 otherwise
\* (admin included); an absent element is answered 404.
C13_ViewFollowsElementRoles ==
    [][\A w \in Workers :
          (ViewAnswers(w) /\ StoredUser(req[w].user_id.v) # {})
          => /\ \A u \in StoredUser(req[w].user_id.v),
                   e \in StoredElement(req[w].element_name) :
                   IF u.is_role \in e.roles
                   THEN /\ req'[w].status = 200
                        /\ req'[w].description = e.description
                   ELSE req'[w].status = 403
             /\ StoredElement(req[w].element_name) = {}
                   => req'[w].status = 404]_vars

\* C14: the outcome of a view request does not depend on the permission
\* records: with any other permission store and the same identity and
\* element stores the same request gets the same status and description.
C14_ViewIgnoresPermissions ==
    [][\A w \in Workers :
          ViewAnswers(w)
          => \A other \in PermissionStores :
                LET out == view_business_element_object(
                               req[w].element_name, req[w].user_id,
                               [Database EXCEPT !.permissions = other])
                IN  /\ req'[w].status = out.status
                    /\ req'[w].description = out.description]_vars

\* a view request was answered while the permission store held no record
\* for the role of the identity
C14_Witness ==
    \E w \in Workers :
        /\ req[w].op = "view" /\ req[w].pc = "done" /\ req[w].status # 401
        /\ \E u \in StoredUser(req[w].user_id.v) :
              /\ \E e \in StoredElement(req[w].element_name) : u.is_role \in e.roles
              /\ StoredPermission(u.is_role) = {}
----------------------------------------------------------------------------
(* Accounts: registration, deactivation and login, one request after the   *)
(* other                                                                    *)

\* the addresses register is called with
RegisterEmails == Emails \cup {"anna@example.com"}

NextAccounts ==
    \/ Tick
    \/ \E w \in Gatekeepers, email \in RegisterEmails, password \in Passwords,
          password_confirm \in Passwords :
          Register(w, email, password, password_confirm)
    \/ \E w \in Gatekeepers, email \in Emails, password \in Passwords :
          Login(w, email, password)
    \/ \E w \in Gatekeepers, t \in AccessTokens, u \in UserIds :
          DeactivateUserRequest(w, t, u)
    \/ \E w \in Gatekeepers : CheckUser(w)
    \/ \E w \in Gatekeepers : CheckPermission(w)
    \/ \E w \in Gatekeepers : YieldUser(w)
    \/ \E w \in Gatekeepers : DeactivateUserBody(w)

SpecAccounts == Init /\ [][NextAccounts]_vars

\* C15: two calls of get_password_hash with the same password in one process
\* return different digests; so no two users that registered, with whatever
\* passwords, store the same hash.
C15_HashesDiffer ==
    \A u, v \in {x \in users : \A y \in SeedUsers : x.id # y.id} :
        u.id # v.id => u.hashed_password # v.hashed_password
\* C18: login answers 200 with an access and a refresh token iff a user with
\* the email exists, the password verifies against its stored hash and the
\* user is active; in every other case it answers 401 and adds no record to
\* the refresh-token store.
C18_LoginIffValidCredentials ==
    [][\A w \in Workers, email \in Emails, password \in Passwords :
          Login(w, email, password)
          => LET valid == \E u \in users :
                             /\ u.email = email
                             /\ verify_password(password, u.hashed_password)
                             /\ u.is_active
             IN  /\ valid <=> /\ req'[w].status = 200
                              /\ req'[w].access_token.type = "access"
                              /\ req'[w].refresh_token.type = "refresh"
                 /\ ~valid => /\ req'[w].status = 401
                              /\ refresh_tokens' = refresh_tokens]_vars
----------------------------------------------------------------------------
(* The token codec *)

\* access tokens are issued by login and presented to the gate while time
\* passes, up to their expiry and beyond
NextCodec ==
    \/ Tick
    \/ Jump(AccessTicks)
    \/ \E w \in Gatekeepers, email \in Emails, password \in Passwords :
          Login(w, email, password)
    \/ \E w \in Gatekeepers, t \in AccessTokens : ReadRequest(w, t, "users", "read")
    \/ \E w \in Gatekeepers : CheckUser(w)
    \/ \E w \in Gatekeepers : CheckPermission(w)
    \/ \E w \in Gatekeepers : YieldUser(w)
    \/ \E w \in Gatekeepers : ReadBody(w)

SpecCodec == Init /\ [][NextCodec]_vars

\* what makes a string fail verification at the current time
BadJwt(token) ==
    \/ token.segments # 3
    \/ token.key # SECRET_KEY
    \/ token.exp * TicksPerSecond <= clock

----------------------------------------------------------------------------
(* The refresh-token store: sweep and issuance *)

\* the requests of the token lifecycle, one after the other
NextStore ==
    \/ Tick
    \/ Jump(RefreshTicks)
    \/ \E w \in Gatekeepers, email \in Emails, password \in Passwords :
          Login(w, email, password)
    \/ \E w \in Gatekeepers, t \in RefreshTokens : RefreshDecode(w, t)
    \/ \E w \in Gatekeepers : RefreshLookup(w)
    \/ \E w \in Gatekeepers : RefreshRevoke(w)
    \/ \E w \in Gatekeepers : RefreshIssue(w)
    \/ \E w \in Gatekeepers : CleanupTokens(w)

SpecStore == Init /\ [][NextStore]_vars

\* w answers a cleanup-tokens request in this step
CleanupAnswers(w) == CleanupTokens(w)

\* C19: a sweep at time now deletes exactly the records whose expiry is
\* earlier than now, reports their number, and leaves the other records
\* unchanged; after it no record is left for a second sweep at the same time.
C19_SweepDeletesExactlyExpired ==
    [][\A w \in Workers :
          CleanupAnswers(w)
          => /\ refresh_tokens' = {r \in refresh_tokens : ~(r.expires_at < clock)}
             /\ req'[w].deleted_count =
                   Cardinality({r \in refresh_tokens : r.expires_at < clock})
             /\ {r \in refresh_tokens' : r.expires_at < clock'} = {}]_vars

\* a sweep deleted an expired record and kept a record that was not expired
C19_Witness ==
    \E w \in Workers :
        /\ req[w].op = "cleanup" /\ req[w].pc = "done" /\ req[w].deleted_count > 0
        /\ refresh_tokens # {}
        /\ expired_rows = {}

\* w answers a request that issues a refresh token, login or refresh, in
\* this step; `token` is the string create_refresh_token signs for it
Issues(w, token) ==
    \/ \E email \in Emails, password \in Passwords :
          /\ Login(w, email, password)
          /\ \E u \in users : u.email = email /\ token = refresh_jwt(PyInt(u.id))
    \/ RefreshIssue(w) /\ token = refresh_jwt(req[w].user_id)

\* the strings create_refresh_token can sign in the current state
Signable == {refresh_jwt(PyInt(u.id)) : u \in users}
               \cup {refresh_jwt(req[w].user_id) : w \in Workers}

\* C20: issuance is all or nothing.  A refresh token returned by login or
\* refresh has, when it is returned, a record with the identity as owner and
\* the issue time plus the refresh TTL as expiry; when persisting the record
\* fails no token is returned and the store holds no record of the token.
C20_IssuanceIsAllOrNothing ==
    [][\A w \in Workers, token \in Signable :
          Issues(w, token)
          => /\ req'[w].status = 200
                => \E r \in refresh_tokens' :
                      /\ r.token = req'[w].refresh_token
                      /\ r.token = token
                      /\ r.user_id = token.sub.v
                      /\ r.expires_at = clock + RefreshTicks
             /\ req'[w].status # 200
                => /\ req'[w].refresh_token = NoToken
                   /\ issued' = issued
             /\ req'[w].status = 500
                => ~\E r \in refresh_tokens' : r.token = token]_vars
----------------------------------------------------------------------------
(* The profile endpoints next to the administrative ones *)

StaffEmails == {u.email : u \in StaffUsers}

\* the parameter names and values update_profile is called with
ProfileParameters == {"first_name", "is_role", "nickname"}
ProfileValues == {"admin", "Masha"}

InitProfile ==
    /\ clock = 0
    /\ advances = <<0, 0>>
    /\ users = StaffUsers
    /\ permissions = StaffPermissions
    /\ business_elements = SeedBusinessElements
    /\ refresh_tokens = {}
    /\ next_token_id = 1
    /\ issued = {}
    /\ consumed = {}
    /\ served = 0
    /\ req = [w \in Workers |-> Idle]

NextProfile ==
    \/ \E w \in Gatekeepers, email \in StaffEmails : Login(w, email, "password123")
    \/ \E w \in Gatekeepers, t \in AccessTokens : ReadRequest(w, t, "users", "read")
    \/ \E w \in Gatekeepers, t \in AccessTokens, p \in ProfileParameters,
          v \in ProfileValues : UpdateProfileRequest(w, t, p, v)
    \/ \E w \in Gatekeepers, t \in AccessTokens : DeactivateAccountRequest(w, t)
    \/ \E w \in Gatekeepers, t \in AccessTokens, u \in UserIds, r \in RoleNames :
          UpdateUserRoleRequest(w, t, u, r)
    \/ \E w \in Gatekeepers : CheckUser(w)
    \/ \E w \in Gatekeepers : CheckPermission(w)
    \/ \E w \in Gatekeepers : YieldUser(w)
    \/ \E w \in Gatekeepers : ReadBody(w)
    \/ \E w \in Gatekeepers : UpdateProfileBody(w)
    \/ \E w \in Gatekeepers : DeactivateAccountBody(w)
    \/ \E w \in Gatekeepers : UpdateUserRoleBody(w)

SpecProfile == InitProfile /\ [][NextProfile]_vars

\* C21: an identity's role name is changed only by update_user_role: every
\* step of another operation (login, get_profile, update_profile with any
\* parameter and value, deactivate_account) leaves every identity's role as
\* it was, so a non-admin identity cannot make its own role "admin".
C21_RoleChangesOnlyByAdmin ==
    [][(~\E w \in Workers : UpdateUserRoleBody(w))
          => \A u \in users, v \in users' : u.id = v.id => v.is_role = u.is_role]_vars
----------------------------------------------------------------------------
(* Registration by two sessions at once *)

NextRegister ==
    \/ \E w \in Workers, email \in RegisterEmails, password \in Passwords,
          password_confirm \in Passwords :
          RegisterCheck(w, email, password, password_confirm)
    \/ \E w \in Workers : RegisterCommit(w)

SpecRegister == Init /\ [][NextRegister]_vars

\* C22: register with an email already in the identity store answers 409
\* and leaves the store unchanged; for any interleaving of concurrent
\* register calls with one email, exactly one identity with that email exists
\* afterwards and every call that did not create it answers 409.
C22_DuplicateRegisterIsConflict ==
    [][\A w \in Workers :
          /\ \A email \in RegisterEmails, p, q \in Passwords :
                ( /\ RegisterCheck(w, email, p, q)
                  /\ \E u \in users : u.email = email )
                => /\ req'[w].pc = "done" /\ req'[w].status = 409
                   /\ users' = users
          /\ RegisterCommit(w)
                => /\ Cardinality({u \in users' : u.email = req[w].user.email}) = 1
                   /\ users' = users => req'[w].status = 409]_vars
----------------------------------------------------------------------------
(* Logging out *)

NextLogout ==
    \/ Tick
    \/ \E w \in Gatekeepers, email \in Emails, password \in Passwords :
          Login(w, email, password)
    \/ \E w \in Gatekeepers, t \in PresentedTokens : LogoutLookup(w, t)
    \/ \E w \in Gatekeepers : LogoutDelete(w)

SpecLogout == Init /\ [][NextLogout]_vars

\* C23: logout is an idempotent revoke: logout(t) removes the record with
\* token string t if there is one and no other record, reports success
\* whether or not the record existed, and a second logout(t) leaves the
\* refresh-token store unchanged and again reports success.
C23_LogoutIsIdempotent ==
    [][\A w \in Workers :
          /\ \A t \in PresentedTokens :
                LogoutLookup(w, t)
                => /\ refresh_tokens' = refresh_tokens
                   /\ (~\E r \in refresh_tokens : r.token = t)
                         => req'[w].pc = "done" /\ req'[w].status = 200
                   /\ ( /\ req[w].op = "logout" /\ req[w].pc = "done"
                        /\ req[w].token = t )
                         => req'[w].pc = "done" /\ req'[w].status = 200
          /\ LogoutDelete(w)
                => /\ refresh_tokens' =
                         {r \in refresh_tokens : r.token # req[w].token}
                   /\ refresh_tokens' # refresh_tokens
                   /\ req'[w].pc = "done" /\ req'[w].status = 200]_vars

\* a logout removed the record of its token and left the other record of
\* the same owner in the store
C23_Witness ==
    \E w \in Workers :
        /\ req[w].op = "logout" /\ req[w].pc = "done" /\ req[w].status = 200
        /\ req[w].deleted
        /\ ~\E r \in refresh_tokens : r.token = req[w].token
        /\ \E r \in refresh_tokens : r.user_id = req[w].token_record.user_id
----------------------------------------------------------------------------
(* The admin router: deactivating and deleting users, two requests at a    *)
(* time                                                                    *)

\* the three staff users have logged in at time 0, each holding its token
\* pair; the requests counted are those that follow
InitStaff ==
    LET rows == { [id |-> u.id, user_id |-> u.id,
                   token |-> refresh_jwt(PyInt(u.id)),
                   expires_at |-> clock + RefreshTicks] : u \in StaffUsers }
    IN  /\ clock = 0
        /\ advances = <<0, 0>>
        /\ users = StaffUsers
        /\ permissions = StaffPermissions
        /\ business_elements = SeedBusinessElements
        /\ refresh_tokens = rows
        /\ next_token_id = Cardinality(StaffUsers) + 1
        /\ issued = {r.token : r \in rows}
                      \cup {create_access_token(PyInt(u.id)) : u \in StaffUsers}
        /\ consumed = {}
        /\ served = 0
        /\ req = [w \in Workers |-> Idle]

NextAdmin ==
    \/ \E w \in Workers, t \in AccessTokens, u \in UserIds :
          DeactivateUserRequest(w, t, u)
    \/ \E w \in Workers, t \in AccessTokens, u \in UserIds :
          DeleteUserRequest(w, t, u)
    \/ \E w \in Workers : CheckUser(w)
    \/ \E w \in Workers : CheckPermission(w)
    \/ \E w \in Workers : YieldUser(w)
    \/ \E w \in Workers : DeactivateUserBody(w)
    \/ \E w \in Workers : DeleteUserBody(w)

SpecAdmin == InitStaff /\ [][NextAdmin]_vars

\* C24: through the admin router no identity can deactivate or delete
\* itself: deactivate_user and delete_user with the caller's own id answer
\* 400 and leave the identity store unchanged; with the id of another
\* existing identity they set that identity's active flag to false,
\* respectively remove exactly that identity.
C24_NoSelfDeactivateOrDelete ==
    [][\A w \in Workers :
          LET caller == req[w].user_id.v
              target == req[w].target_id
          IN  /\ DeactivateUserBody(w)
                    => IF target = caller
                       THEN StoredUser(caller) # {}
                            => req'[w].status = 400 /\ users' = users
                       ELSE StoredUser(target) # {}
                            => /\ req'[w].status = 200
                               /\ users' = {IF u.id = target
                                             THEN [u EXCEPT !.is_active = FALSE]
                                             ELSE u : u \in users}
              /\ DeleteUserBody(w)
                    => IF target = caller
                       THEN StoredUser(caller) # {}
                            => req'[w].status = 400 /\ users' = users
                       ELSE StoredUser(target) # {}
                            => /\ req'[w].status = 200
                               /\ users' = users \ StoredUser(target)]_vars
----------------------------------------------------------------------------
(* Records and their tokens: checked under SpecStore *)

\* the payload of a correctly signed token, whether expired or not
Claims(token) ==
    IF token.segments = 3 /\ token.key = SECRET_KEY
    THEN [sub |-> token.sub, exp |-> token.exp, type |-> token.type]
    ELSE NoPayload

\* C25: every record of the refresh-token store is consistent with its
\* token: the token string decodes (expiry ignored) to kind "refresh", to the
\* id of the record's owner as subject and to the record's expiry truncated
\* to whole seconds; so a successful refresh issues the new pair for the
\* owner of the record it consumed.
C25_RecordsMatchTokens ==
    [][/\ \A r \in refresh_tokens' :
             /\ Claims(r.token).type = "refresh"
             /\ Claims(r.token).sub = [ty |-> "str", v |-> r.user_id]
             /\ Claims(r.token).exp = timestamp_int(r.expires_at)
       /\ \A w \in Workers :
             (RefreshIssue(w) /\ req'[w].status = 200)
             => /\ Claims(req'[w].refresh_token).sub.v = req[w].token_record.user_id
                /\ Claims(req'[w].access_token).sub.v = req[w].token_record.user_id
                /\ \E r \in refresh_tokens' \ refresh_tokens :
                      r.user_id = req[w].token_record.user_id]_vars

\* a refresh wrote a record, for the owner of the record it consumed, whose
\* expiry is not on a second boundary
C25_Witness ==
    \E w \in Workers, r \in refresh_tokens :
        /\ req[w].op = "refresh" /\ req[w].pc = "done" /\ req[w].status = 200
        /\ r.token = req[w].refresh_token
        /\ r.id # req[w].token_record.id
        /\ r.user_id = req[w].token_record.user_id
        /\ r.expires_at % TicksPerSecond # 0

\* C26: any two issuances of a refresh token, by login or refresh, for the
\* same or for different identities, also within one clock second, produce
\* different token strings; so the unique constraint on the token never
\* rejects an issuance, and a rotated token never equals the token it
\* replaced.
C26_IssuedStringsDiffer ==
    [][\A w \in Workers, token \in Signable :
          (Issues(w, token) /\ req'[w].status # 401)
          => /\ token \notin issued
             /\ req'[w].status # 500
             /\ RefreshIssue(w) => token # req[w].token]_vars
----------------------------------------------------------------------------
(* Sessions of identities that are deactivated or deleted *)

NextRevocation ==
    \/ Tick
    \/ \E w \in Gatekeepers, email \in StaffEmails, password \in Passwords :
          Login(w, email, password)
    \/ \E w \in Gatekeepers, t \in RefreshTokens : RefreshDecode(w, t)
    \/ \E w \in Gatekeepers : RefreshLookup(w)
    \/ \E w \in Gatekeepers : RefreshRevoke(w)
    \/ \E w \in Gatekeepers : RefreshIssue(w)
    \/ \E w \in Gatekeepers, t \in AccessTokens, u \in UserIds :
          DeactivateUserRequest(w, t, u)
    \/ \E w \in Gatekeepers, t \in AccessTokens : DeactivateAccountRequest(w, t)
    \/ \E w \in Gatekeepers, t \in AccessTokens, u \in UserIds :
          DeleteUserRequest(w, t, u)
    \/ \E w \in Gatekeepers : CheckUser(w)
    \/ \E w \in Gatekeepers : CheckPermission(w)
    \/ \E w \in Gatekeepers : YieldUser(w)
    \/ \E w \in Gatekeepers : DeactivateUserBody(w)
    \/ \E w \in Gatekeepers : DeactivateAccountBody(w)
    \/ \E w \in Gatekeepers : DeleteUserBody(w)

SpecRevocation == InitStaff /\ [][NextRevocation]_vars

\* w answers a login or a refresh with a new token pair in this step
IssuesPair(w) ==
    /\ \/ RefreshIssue(w)
       \/ \E email \in StaffEmails, password \in Passwords :
             Login(w, email, password)
    /\ req'[w].status = 200

----------------------------------------------------------------------------
(* The gate and the stores: checked under SpecGate *)

\* the gate of w's request takes a step: the request arrives, the user is
\* loaded, the permission record is loaded, or the user is yielded
GateSteps(w) ==
    \/ GateArrives(w)
    \/ GateLoadsUser(w)
    \/ GateLoadsPermission(w)
    \/ req[w].op \in GatedOps /\ YieldUser(w)

\* C29: evaluating the gate is read-only: for every request and every
\* outcome (yield, 401, 404, 403) the identity store, the permission store,
\* the business-element store and the refresh-token store are the same after
\* the gate as before it.
C29_GateIsReadOnly ==
    [][\A w \in Workers :
          GateSteps(w)
          => /\ users' = users
             /\ permissions' = permissions
             /\ business_elements' = business_elements
             /\ refresh_tokens' = refresh_tokens]_vars

\* the gate refused a stored refresh token presented as a bearer, and the
\* record of that token is still in the store
C29_Witness ==
    \E w \in Workers :
        /\ req[w].op \in GatedOps /\ req[w].pc = "done" /\ req[w].status = 401
        /\ req[w].token.type = "refresh"
        /\ \E r \in refresh_tokens : r.token = req[w].token
        /\ users # {} /\ permissions # {} /\ business_elements # {}
----------------------------------------------------------------------------
(* Access tokens and the refresh-token store *)

\* pairs the three roles are answered differently for, and one without a
\* column
StatelessPairs ==
    {<<"users", "read">>, <<"users", "update">>, <<"reports", "read">>}

\* the gate is asked while sessions are ended, rotated and swept
NextStateless ==
    \/ Jump(AccessTicks + 1)
    \/ \E w \in Gatekeepers, t \in RefreshTokens : LogoutLookup(w, t)
    \/ \E w \in Gatekeepers : LogoutDelete(w)
    \/ \E w \in Gatekeepers, t \in RefreshTokens : RefreshDecode(w, t)
    \/ \E w \in Gatekeepers : RefreshLookup(w)
    \/ \E w \in Gatekeepers : RefreshRevoke(w)
    \/ \E w \in Gatekeepers : RefreshIssue(w)
    \/ \E w \in Gatekeepers : CleanupTokens(w)
    \/ \E w \in Gatekeepers, t \in AccessTokens, pair \in StatelessPairs :
          ReadRequest(w, t, pair[1], pair[2])
    \/ \E w \in Gatekeepers : CheckUser(w)
    \/ \E w \in Gatekeepers : CheckPermission(w)
    \/ \E w \in Gatekeepers : YieldUser(w)
    \/ \E w \in Gatekeepers : ReadBody(w)

SpecStateless == InitStaff /\ [][NextStateless]_vars

\* what the gate answers to a bearer token and a pair, from the identities,
\* the permission records and the time alone: 401, 404, 403, or 200 for a
\* yield
GateOutcome(token, resource, action) ==
    IF BadBearer(token) THEN 401
    ELSE IF StoredUser(token.sub.v) = {} THEN 404
    ELSE LET user == CHOOSE u \in StoredUser(token.sub.v) : TRUE
             pair == <<resource, action>>
         IN  IF user.is_role = "admin" THEN 200
             ELSE IF StoredPermission(user.is_role) = {} THEN 403
             ELSE IF pair \notin Resources \X Actions THEN 403
             ELSE IF \E p \in StoredPermission(user.is_role) : p.flags[FlagNamed[pair]]
                  THEN 200
                  ELSE 403

\* the gate of w's request decides in this step: it refuses the request or
\* permits it
GateDecides(w) ==
    /\ \/ GateArrives(w)
       \/ GateLoadsUser(w)
       \/ GateLoadsPermission(w)
    /\ req'[w].pc \in {"done", "permitted"}

\* C30: access tokens are stateless with respect to the refresh-token
\* store: with the same identities, permission records and time, the gate
\* gives the same outcome for the same access token and pair whatever the
\* refresh-token store holds, before and after logout, refresh or sweep.
C30_GateIgnoresRefreshStore ==
    [][\A w \in Workers :
          GateDecides(w)
          => LET outcome == GateOutcome(req'[w].token, req'[w].resource,
                                        req'[w].action)
             IN  IF req'[w].pc = "permitted" THEN outcome = 200
                 ELSE req'[w].status = outcome]_vars

\* the gate let a request through whose access token belongs to an identity
\* that holds no refresh record any more
C30_Witness ==
    \E w \in Workers :
        /\ req[w].op \in GatedOps /\ req[w].pc = "yielded"
        /\ req[w].token \in AccessTokens
        /\ ~\E r \in refresh_tokens : r.user_id = req[w].user_id.v
        /\ refresh_tokens # {}
=============================================================================
